---- MODULE Spec2Model ----
(***************************************************************************)
(* A model of the reverse-mode automatic differentiation core of           *)
(* msupernaw/AutoDiff_Paper: the Variable handle (Variable.hpp_bckup2),     *)
(* its record-and-assign procedure Assign_p, the Sinh and Cosh expression   *)
(* nodes, and the parts of GradientStructure / VariableInfo / IDSet and of  *)
(* the binary nodes that the handle calls.                                 *)
(*                                                                         *)
(* REAL_T values are modelled by integers plus one non-finite value NaN;    *)
(* std::sinh and std::cosh are library functions, modelled by the integer  *)
(* surrogates StdSinh (odd, StdSinh(0) = 0) and StdCosh (even,              *)
(* StdCosh(0) = 1), which differ at every argument but 1.                   *)
(***************************************************************************)
EXTENDS Integers, Sequences, FiniteSets, TLC

VARIABLES
    handles,    \* Variable objects: slot -> [live, info, bounded, min, max]
    info,       \* VariableInfo objects: id -> fields
    next_id,    \* the id the next VariableInfo is minted with
    gs,         \* Variable::gradient_structure_g, the one static tape
    pc,         \* "running", or "exited" after exit(0)
    out,        \* what was written to std::cout
    last        \* the operation performed last, with what it observed on entry

vars == <<handles, info, next_id, gs, pc, out, last>>

----------------------------------------------------------------------------
(* Bounds of the model *)

\* ids 1..MaxInfos can be minted
MaxInfos == 3
\* gradient_stack is allocated with MaxTape slots (one more where a
\* specification says so)
MaxTape == 1
\* finite values stored in a VariableInfo stay within -MaxAbs..MaxAbs
MaxAbs == 1

Handles == {1, 2}
Threads == {1, 2}
InfoIds == 1..MaxInfos
NoInfo == 0

----------------------------------------------------------------------------
(* REAL_T *)

\* the non-finite value; value != value holds of it alone
NaN == 0 - 1000000000

IsNaN(x) == x = NaN
Finite == -MaxAbs..MaxAbs
Scalars == {-1, 0, 1, NaN}
\* arguments of SetValue and operator=(REAL_T): one step beyond the bound too
ValueInputs == (-(MaxAbs + 1))..(MaxAbs + 1) \cup {NaN}

Plus(a, b) == IF IsNaN(a) \/ IsNaN(b) THEN NaN ELSE a + b
Minus(a, b) == IF IsNaN(a) \/ IsNaN(b) THEN NaN ELSE a - b
Times(a, b) == IF IsNaN(a) \/ IsNaN(b) THEN NaN ELSE a * b
\* a / b on the integer surrogate: the quotient rounded towards minus
\* infinity, non-finite when b is zero
Quot(a, b) == IF IsNaN(a) \/ IsNaN(b) \/ b = 0 THEN NaN ELSE a \div b
\* IEEE comparisons: false whenever an operand is NaN
Less(a, b) == ~IsNaN(a) /\ ~IsNaN(b) /\ a < b
Greater(a, b) == ~IsNaN(a) /\ ~IsNaN(b) /\ a > b
Equal(a, b) == ~IsNaN(a) /\ ~IsNaN(b) /\ a = b

StdSinh(x) == IF IsNaN(x) THEN NaN ELSE x * x * x + x
StdCosh(x) == IF IsNaN(x) THEN NaN ELSE x * x + 1

\* std::numeric_limits<REAL_T>::min() (the smallest positive normal value,
\* 0 on the integer surrogate) and ::max()
REAL_MIN == 0
REAL_MAX == 1000000

----------------------------------------------------------------------------
(* Expression nodes.  An expression is built and consumed inside one       *)
(* statement; its leaves are Variable handles, read through their info.    *)

Var(h) == [op |-> "var", h |-> h]
Scalar(c) == [op |-> "scalar", c |-> c]
Sinh(e) == [op |-> "sinh", arg |-> e]
Cosh(e) == [op |-> "cosh", arg |-> e]
Add(l, r) == [op |-> "add", l |-> l, r |-> r]
Subtract(l, r) == [op |-> "sub", l |-> l, r |-> r]
Multiply(l, r) == [op |-> "mul", l |-> l, r |-> r]
Divide(l, r) == [op |-> "div", l |-> l, r |-> r]

Unary == {"sinh", "cosh"}
Binary == {"add", "sub", "mul", "div"}

InfoOf(h) == handles[h].info

\* Binary nodes: value of the node from the values of its children
BinaryValue(op, l, r) ==
    CASE op = "add" -> Plus(l, r)
      [] op = "sub" -> Minus(l, r)
      [] op = "mul" -> Times(l, r)
      [] op = "div" -> Quot(l, r)

RECURSIVE GetValue(_)
GetValue(e) ==
    CASE e.op = "var" -> info[InfoOf(e.h)].vvalue
      [] e.op = "scalar" -> e.c
      [] e.op = "sinh" -> StdSinh(GetValue(e.arg))
      \* Cosh caches value_m = expr.GetValue() when it is constructed, in
      \* the statement that consumes it
      [] e.op = "cosh" -> StdCosh(GetValue(e.arg))
      [] e.op \in Binary -> BinaryValue(e.op, GetValue(e.l), GetValue(e.r))

\* IDSet::insert: ordered, deduplicating
IDSetInsert(ids, x) ==
    IF \E k \in 1..Len(ids) : ids[k] = x THEN ids ELSE Append(ids, x)

RECURSIVE IDSetInsertAll(_, _)
IDSetInsertAll(ids, more) ==
    IF more = <<>> THEN ids
    ELSE IDSetInsertAll(IDSetInsert(ids, Head(more)), Tail(more))

RECURSIVE PushIds(_)
PushIds(e) ==
    CASE e.op = "var" -> <<InfoOf(e.h)>>
      [] e.op = "scalar" -> <<>>
      [] e.op \in Unary -> PushIds(e.arg)
      [] e.op \in Binary -> IDSetInsertAll(PushIds(e.l), PushIds(e.r))

RECURSIVE IsNonlinear(_)
IsNonlinear(e) ==
    CASE e.op = "var" -> info[InfoOf(e.h)].is_nl
      [] e.op = "scalar" -> FALSE
      [] e.op \in Unary -> TRUE
      [] e.op \in {"add", "sub"} -> IsNonlinear(e.l) \/ IsNonlinear(e.r)
      [] e.op \in {"mul", "div"} -> TRUE

\* MakeNLInteractions(b) applied to the infos inf: a Variable stores b in
\* has_nl_interaction, Sinh and Cosh do nothing, a binary node passes the
\* mark down to both children
RECURSIVE MakeNLInteractions(_, _, _)
MakeNLInteractions(e, b, inf) ==
    CASE e.op = "var" -> [inf EXCEPT ![InfoOf(e.h)].has_nl_interaction = b]
      [] e.op = "scalar" -> inf
      [] e.op \in Unary -> inf
      [] e.op \in {"add", "sub"} ->
            MakeNLInteractions(e.r, b, MakeNLInteractions(e.l, b, inf))
      [] e.op \in {"mul", "div"} ->
            MakeNLInteractions(e.r, TRUE, MakeNLInteractions(e.l, TRUE, inf))

Sum3(a, b, c) == Plus(a, Plus(b, c))
Prod3(a, b, c) == Times(a, Times(b, c))
Prod4(a, b, c, d) == Times(a, Times(b, Times(c, d)))

\* Sinh::EvaluateDerivative(id) from the inner value g and inner partial ga
SinhD1(g, ga) == Times(ga, StdCosh(g))
\* Sinh::EvaluateDerivative(a, b)
SinhD2(g, ga, gb, gab) ==
    Plus(Prod3(StdSinh(g), ga, gb), Times(StdCosh(g), gab))
\* Sinh::EvaluateDerivative(x, y, z) with gxy * gz in the place of gxz * gy
SinhD3_RepeatedTerm(g, gx, gy, gz, gxy, gxz, gyz, gxyz) ==
    Plus(Prod4(StdCosh(g), gx, gy, gz),
    Plus(Prod3(StdSinh(g), gxy, gz),
    Plus(Prod3(StdSinh(g), gx, gyz),
    Plus(Prod3(StdSinh(g), gxy, gz),
         Times(StdCosh(g), gxyz)))))

\* Sinh::EvaluateDerivative(x, y, z)
SinhD3(g, gx, gy, gz, gxy, gxz, gyz, gxyz) ==
    Plus(Prod4(StdCosh(g), gx, gy, gz),
    Plus(Prod3(StdSinh(g), gxy, gz),
    Plus(Prod3(StdSinh(g), gx, gyz),
    Plus(Prod3(StdSinh(g), gxz, gy),
         Times(StdCosh(g), gxyz)))))

\* Cosh::EvaluateDerivative(id)
CoshD1(g, ga) == Times(ga, StdSinh(g))
\* Cosh::EvaluateDerivative(a, b) with the factors of Sinh's
CoshD2_AsSinh(g, ga, gb, gab) ==
    Plus(Prod3(StdSinh(g), ga, gb), Times(StdCosh(g), gab))

\* Cosh::EvaluateDerivative(a, b)
CoshD2(g, ga, gb, gab) ==
    Plus(Prod3(StdCosh(g), ga, gb), Times(StdSinh(g), gab))
\* Cosh::EvaluateDerivative(x, y, z)
CoshD3(g, gx, gy, gz, gxy, gxz, gyz, gxyz) ==
    Plus(Prod4(StdSinh(g), gx, gy, gz),
    Plus(Prod3(StdCosh(g), gxy, gz),
    Plus(Prod3(StdCosh(g), gx, gyz),
    Plus(Prod3(StdCosh(g), gxz, gy),
         Times(StdSinh(g), gxyz)))))

\* Binary nodes, first partial: l, r the children's values, la, ra their
\* partials
BinaryD1(op, l, r, la, ra) ==
    CASE op = "add" -> Plus(la, ra)
      [] op = "sub" -> Minus(la, ra)
      [] op = "mul" -> Plus(Times(la, r), Times(l, ra))
      [] op = "div" -> Quot(Minus(Times(la, r), Times(l, ra)), Times(r, r))

\* Binary nodes, second partial
BinaryD2(op, l, r, la, lb, lab, ra, rb, rab) ==
    CASE op = "add" -> Plus(lab, rab)
      [] op = "sub" -> Minus(lab, rab)
      [] op = "mul" ->
            Plus(Times(lab, r),
            Plus(Times(la, rb), Plus(Times(lb, ra), Times(l, rab))))
      [] op = "div" ->
            Quot(Plus(Prod3(lab, r, r),
                 Plus(Minus(0, Times(Plus(Times(la, rb), Times(lb, ra)), r)),
                 Plus(Minus(0, Prod3(l, rab, r)),
                      Prod4(2, l, ra, rb)))),
                 Prod3(r, r, r))

\* Binary nodes, third partial
BinaryD3(op, l, r, la, lb, lc, lab, lac, lbc, labc, ra, rb, rc, rab, rac, rbc, rabc) ==
    CASE op = "add" -> Plus(labc, rabc)
      [] op = "sub" -> Minus(labc, rabc)
      [] op = "mul" ->
            Plus(Times(labc, r),
            Plus(Sum3(Times(lab, rc), Times(lac, rb), Times(lbc, ra)),
            Plus(Sum3(Times(la, rbc), Times(lb, rac), Times(lc, rab)),
                 Times(l, rabc))))
      [] op = "div" ->
            Quot(Plus(Prod4(labc, r, r, r),
                 Plus(Minus(0, Prod3(Sum3(Times(lab, rc), Times(lac, rb),
                                          Times(lbc, ra)), r, r)),
                 Plus(Times(Sum3(
                        Times(la, Minus(Prod3(2, rb, rc), Times(rbc, r))),
                        Times(lb, Minus(Prod3(2, ra, rc), Times(rac, r))),
                        Times(lc, Minus(Prod3(2, ra, rb), Times(rab, r)))), r),
                      Times(l, Sum3(
                        Minus(0, Prod3(rabc, r, r)),
                        Prod3(2, Sum3(Times(rab, rc), Times(rac, rb),
                                      Times(rbc, ra)), r),
                        Minus(0, Prod4(6, ra, rb, rc))))))),
                 Prod4(r, r, r, r))

\* EvaluateDerivative(a)
RECURSIVE EvaluateDerivative(_, _)
EvaluateDerivative(e, a) ==
    CASE e.op = "var" -> IF InfoOf(e.h) = a THEN 1 ELSE 0
      [] e.op = "scalar" -> 0
      [] e.op = "sinh" -> SinhD1(GetValue(e.arg), EvaluateDerivative(e.arg, a))
      [] e.op = "cosh" -> CoshD1(GetValue(e.arg), EvaluateDerivative(e.arg, a))
      [] e.op \in Binary ->
            BinaryD1(e.op, GetValue(e.l), GetValue(e.r),
                     EvaluateDerivative(e.l, a), EvaluateDerivative(e.r, a))

\* EvaluateDerivative(a, b)
RECURSIVE EvaluateDerivative2(_, _, _)
EvaluateDerivative2(e, a, b) ==
    CASE e.op = "var" -> 0
      [] e.op = "scalar" -> 0
      [] e.op = "sinh" ->
            SinhD2(GetValue(e.arg), EvaluateDerivative(e.arg, a),
                   EvaluateDerivative(e.arg, b), EvaluateDerivative2(e.arg, a, b))
      [] e.op = "cosh" ->
            CoshD2(GetValue(e.arg), EvaluateDerivative(e.arg, a),
                   EvaluateDerivative(e.arg, b), EvaluateDerivative2(e.arg, a, b))
      [] e.op \in Binary ->
            BinaryD2(e.op, GetValue(e.l), GetValue(e.r),
                     EvaluateDerivative(e.l, a), EvaluateDerivative(e.l, b),
                     EvaluateDerivative2(e.l, a, b),
                     EvaluateDerivative(e.r, a), EvaluateDerivative(e.r, b),
                     EvaluateDerivative2(e.r, a, b))

\* EvaluateDerivative(x, y, z)
RECURSIVE EvaluateDerivative3(_, _, _, _)
EvaluateDerivative3(e, x, y, z) ==
    CASE e.op = "var" -> 0
      [] e.op = "scalar" -> 0
      [] e.op = "sinh" ->
            SinhD3(GetValue(e.arg), EvaluateDerivative(e.arg, x),
                   EvaluateDerivative(e.arg, y), EvaluateDerivative(e.arg, z),
                   EvaluateDerivative2(e.arg, x, y),
                   EvaluateDerivative2(e.arg, x, z),
                   EvaluateDerivative2(e.arg, y, z),
                   EvaluateDerivative3(e.arg, x, y, z))
      [] e.op = "cosh" ->
            CoshD3(GetValue(e.arg), EvaluateDerivative(e.arg, x),
                   EvaluateDerivative(e.arg, y), EvaluateDerivative(e.arg, z),
                   EvaluateDerivative2(e.arg, x, y),
                   EvaluateDerivative2(e.arg, x, z),
                   EvaluateDerivative2(e.arg, y, z),
                   EvaluateDerivative3(e.arg, x, y, z))
      [] e.op \in Binary ->
            BinaryD3(e.op, GetValue(e.l), GetValue(e.r),
                     EvaluateDerivative(e.l, x), EvaluateDerivative(e.l, y),
                     EvaluateDerivative(e.l, z),
                     EvaluateDerivative2(e.l, x, y),
                     EvaluateDerivative2(e.l, x, z),
                     EvaluateDerivative2(e.l, y, z),
                     EvaluateDerivative3(e.l, x, y, z),
                     EvaluateDerivative(e.r, x), EvaluateDerivative(e.r, y),
                     EvaluateDerivative(e.r, z),
                     EvaluateDerivative2(e.r, x, y),
                     EvaluateDerivative2(e.r, x, z),
                     EvaluateDerivative2(e.r, y, z),
                     EvaluateDerivative3(e.r, x, y, z))

\* GetDynamicExpession: an owning clone whose leaves hold the info itself
RECURSIVE GetDynamicExpession(_)
GetDynamicExpession(e) ==
    CASE e.op = "var" -> [op |-> "var", info |-> InfoOf(e.h)]
      [] e.op = "scalar" -> e
      [] e.op \in Unary -> [op |-> e.op, arg |-> GetDynamicExpession(e.arg)]
      [] e.op \in Binary ->
            [op |-> e.op, l |-> GetDynamicExpession(e.l),
             r |-> GetDynamicExpession(e.r)]

----------------------------------------------------------------------------
(* VariableInfo *)

\* VariableInfo(): a live info holding one reference
NewInfo(v) ==
    [state |-> "live", vvalue |-> v, dvalue |-> 0, ref_count |-> 1,
     is_dependent |-> 0, is_nl |-> FALSE, has_nl_interaction |-> FALSE,
     dependence_level |-> 0, push_start |-> 0, dependencies |-> {}]

\* an id that has not been minted yet
UnbornInfo == [NewInfo(0) EXCEPT !.state = "unborn", !.ref_count = 0]

\* VariableInfo::Aquire
Aquire(inf, i) == [inf EXCEPT ![i].ref_count = @ + 1]

\* VariableInfo::Release: the info is destroyed when the count reaches zero
Release(inf, i) ==
    [inf EXCEPT ![i].ref_count = @ - 1,
                ![i].state = IF inf[i].ref_count = 1 THEN "destroyed" ELSE @]

----------------------------------------------------------------------------
(* GradientStructure *)

FIRST_ORDER == "FIRST_ORDER"
SECOND_ORDER == "SECOND_ORDER"
THIRD_ORDER == "THIRD_ORDER"
SECOND_ORDER_MIXED_PARTIALS == "SECOND_ORDER_MIXED_PARTIALS"
THIRD_ORDER_MIXED_PARTIALS == "THIRD_ORDER_MIXED_PARTIALS"
GRADIENT == "GRADIENT"
GRADIENT_AND_HESSIAN == "GRADIENT_AND_HESSIAN"
DYNAMIC_RECORD == "DYNAMIC_RECORD"
\* a derivative_trace_level outside the enumeration
UNKNOWN_LEVEL == "UNKNOWN_LEVEL"

RecordingLevels ==
    {FIRST_ORDER, SECOND_ORDER_MIXED_PARTIALS, THIRD_ORDER_MIXED_PARTIALS,
     GRADIENT, GRADIENT_AND_HESSIAN, DYNAMIC_RECORD}
\* the levels whose case of Assign_p stores partials in the entry
StoringLevels == RecordingLevels \ {DYNAMIC_RECORD}
FatalLevels == {SECOND_ORDER, THIRD_ORDER, UNKNOWN_LEVEL}
TraceLevels == RecordingLevels \cup FatalLevels

\* min_id of a tape that has observed no id: the largest id there is (the
\* largest integer of the model stands for the largest uint32_t)
UINT32_MAX == 2147483647

\* GradientStructure(): an empty tape of `size` free slots; gradient_stack
\* holds the slots that were handed out
NewGradientStructure(level, recording, size) ==
    [gradient_stack |-> <<>>, stack_current |-> 0, recording |-> recording,
     derivative_trace_level |-> level, min_id |-> UINT32_MAX, max_id |-> 0,
     size |-> size]

\* a free slot of gradient_stack
EmptyEntry ==
    [w |-> NoInfo, ids |-> <<>>, first |-> <<>>, second |-> <<>>,
     third |-> <<>>, second_mixed |-> <<>>, third_mixed |-> <<>>,
     exp |-> <<>>, by |-> 0]

\* GradientStructure::NextIndex: the cursor, which it advances by one
NextIndex(g) ==
    [index |-> g.stack_current,
     gs |-> [g EXCEPT !.stack_current = @ + 1]]

\* gs.gradient_stack[index] = entry
PutEntry(g, index, entry) ==
    [g EXCEPT !.gradient_stack =
        IF index + 1 <= Len(@) THEN [@ EXCEPT ![index + 1] = entry]
        ELSE Append(@, entry)]

Zeros(n) == [k \in 1..n |-> 0]

----------------------------------------------------------------------------
(* Variable *)

\* the one ParameterTransformation the class defines an instance of
default_transformation == "default_transformation"

DeadHandle ==
    [live |-> FALSE, info |-> NoInfo, bounded |-> FALSE,
     min |-> REAL_MIN, max |-> REAL_MAX,
     transformation |-> default_transformation]

\* Variable() and Variable(val): a handle on the fresh info i
FreshHandle(i) ==
    [live |-> TRUE, info |-> i, bounded |-> FALSE,
     min |-> REAL_MIN, max |-> REAL_MAX,
     transformation |-> default_transformation]

\* SetValue without its `else if (value > max_boundary_m)` branch
SetValue_NoUpperClamp(H, value, inf) ==
    IF ~H.bounded THEN [inf EXCEPT ![H.info].vvalue = value]
    ELSE IF IsNaN(value)
         THEN [inf EXCEPT ![H.info].vvalue =
                    Plus(H.min, Quot(Minus(H.max, H.min), 2))]
    ELSE IF Less(value, H.min) THEN [inf EXCEPT ![H.info].vvalue = H.min]
    ELSE [inf EXCEPT ![H.info].vvalue = value]

\* SetValue without its `if (value != value)` branch
SetValue_NaNThrough(H, value, inf) ==
    IF ~H.bounded THEN [inf EXCEPT ![H.info].vvalue = value]
    ELSE IF Less(value, H.min) THEN [inf EXCEPT ![H.info].vvalue = H.min]
    ELSE IF Greater(value, H.max) THEN [inf EXCEPT ![H.info].vvalue = H.max]
    ELSE [inf EXCEPT ![H.info].vvalue = value]

\* Variable::SetValue through the handle H, applied to the infos inf
SetValue(H, value, inf) ==
    IF ~H.bounded THEN [inf EXCEPT ![H.info].vvalue = value]
    ELSE IF IsNaN(value)
         THEN [inf EXCEPT ![H.info].vvalue =
                    Plus(H.min, Quot(Minus(H.max, H.min), 2))]
    ELSE IF Less(value, H.min) THEN [inf EXCEPT ![H.info].vvalue = H.min]
    ELSE IF Greater(value, H.max) THEN [inf EXCEPT ![H.info].vvalue = H.max]
    ELSE [inf EXCEPT ![H.info].vvalue = value]

\* the loop of FIRST_ORDER over entry.ids: min_id and max_id
RECURSIVE IdRange(_, _, _)
IdRange(g, ids, k) ==
    IF k > Len(ids) THEN g
    ELSE LET id == ids[k]
             g1 == IF id > g.max_id THEN [g EXCEPT !.max_id = id] ELSE g
             g2 == IF id < g1.min_id THEN [g1 EXCEPT !.min_id = id] ELSE g1
         IN IdRange(g2, ids, k + 1)

\* entry.first as entry.first.resize(entry.ids.size(), 0.0) left it
FirstPartials_LeftAsResized(e, ids) == Zeros(Len(ids))

\* entry.first[i] = exp.EvaluateDerivative(id of the first independent)
FirstPartials_OfFirstId(e, ids) ==
    [k \in 1..Len(ids) |-> EvaluateDerivative(e, ids[1])]

\* entry.first[i] = exp.EvaluateDerivative((*it)->id)
FirstPartials(e, ids) ==
    [k \in 1..Len(ids) |-> EvaluateDerivative(e, ids[k])]

\* the double loop with jt stopping at it and no write of the mirror cell
RECURSIVE SecondMixedSymmetric_LowerOnly(_, _, _, _, _)
SecondMixedSymmetric_LowerOnly(e, ids, sm, i, j) ==
    LET n == Len(ids) IN
    IF i >= n THEN sm
    ELSE IF j > i THEN SecondMixedSymmetric_LowerOnly(e, ids, sm, i + 1, 0)
    ELSE SecondMixedSymmetric_LowerOnly(
            e, ids,
            [sm EXCEPT ![i * n + j + 1] =
                EvaluateDerivative2(e, ids[i + 1], ids[j + 1])],
            i, j + 1)

\* the double loop of SECOND_ORDER_MIXED_PARTIALS over (it, jt), from the
\* 0-based position (i, j) on, writing into sm
RECURSIVE SecondMixedSymmetric(_, _, _, _, _)
SecondMixedSymmetric(e, ids, sm, i, j) ==
    LET n == Len(ids) IN
    IF i >= n THEN sm
    ELSE IF j >= n THEN SecondMixedSymmetric(e, ids, sm, i + 1, 0)
    ELSE LET dxx == EvaluateDerivative2(e, ids[i + 1], ids[j + 1])
             s1 == [sm EXCEPT ![i * n + j + 1] = dxx]
             s2 == IF i > 0 /\ i # j THEN [s1 EXCEPT ![j * n + i + 1] = dxx]
                   ELSE s1
         IN SecondMixedSymmetric(e, ids, s2, i, j + 1)

\* the double loop of THIRD_ORDER_MIXED_PARTIALS over (it, jt)
SecondMixedFull(e, ids) ==
    LET n == Len(ids) IN
    [c \in 1..(n * n) |->
        EvaluateDerivative2(e, ids[((c - 1) \div n) + 1], ids[((c - 1) % n) + 1])]

\* the triple loop over a third_mixed resized to ids.size() squared
ThirdMixedFull_Squared(e, ids) ==
    LET n == Len(ids) IN
    [c \in 1..(n * n) |->
        EvaluateDerivative3(e, ids[1], ids[((c - 1) \div n) + 1],
                            ids[((c - 1) % n) + 1])]

\* the triple loop of THIRD_ORDER_MIXED_PARTIALS over (it, jt, kt)
ThirdMixedFull(e, ids) ==
    LET n == Len(ids) IN
    [c \in 1..(n * n * n) |->
        EvaluateDerivative3(e, ids[((c - 1) \div (n * n)) + 1],
                            ids[(((c - 1) \div n) % n) + 1],
                            ids[((c - 1) % n) + 1])]

\* the double loop of GRADIENT_AND_HESSIAN, which leaves a row at j == i
RECURSIVE SecondMixedLower(_, _, _, _, _)
SecondMixedLower(e, ids, sm, i, j) ==
    LET n == Len(ids) IN
    IF i >= n THEN sm
    ELSE IF j >= n THEN SecondMixedLower(e, ids, sm, i + 1, 0)
    ELSE LET dxx == EvaluateDerivative2(e, ids[i + 1], ids[j + 1])
             s1 == [sm EXCEPT ![i * n + j + 1] = dxx]
             s2 == IF i > 0 /\ i # j THEN [s1 EXCEPT ![j * n + i + 1] = dxx]
                   ELSE s1
         IN IF j = i THEN SecondMixedLower(e, ids, s2, i + 1, 0)
            ELSE SecondMixedLower(e, ids, s2, i, j + 1)

\* (*it)->dependence_level++ for every independent
RECURSIVE BumpDependenceLevel(_, _, _)
BumpDependenceLevel(inf, ids, k) ==
    IF k > Len(ids) THEN inf
    ELSE BumpDependenceLevel(
            [inf EXCEPT ![ids[k]].dependence_level = @ + 1], ids, k + 1)

\* the per-independent bookkeeping of the two mixed-partials levels
RECURSIVE MixedBookkeeping(_, _, _, _, _)
MixedBookkeeping(inf, ids, k, w, index) ==
    IF k > Len(ids) THEN inf
    ELSE LET it == ids[k]
             a == [inf EXCEPT ![w].dependencies = @ \cup {it}]
             b == IF a[it].has_nl_interaction \/ a[it].is_nl
                  THEN [a EXCEPT ![it].push_start = index] ELSE a
             c == [b EXCEPT ![it].dependence_level = @ + 1]
         IN MixedBookkeeping(c, ids, k + 1, w, index)

----------------------------------------------------------------------------
(* Variable::Assign_p *)

\* the body of `if (gs.recording)` with every level handled as GRADIENT
RecordEntry_NoExit(t, H, e, g, inf) ==
    [gs |-> PutEntry(NextIndex(g).gs, NextIndex(g).index,
                     [EmptyEntry EXCEPT !.w = H.info, !.ids = PushIds(e),
                         !.first = FirstPartials(e, PushIds(e)), !.by = t]),
     info |-> inf, pc |-> "running", out |-> out]

\* The body of `if (gs.recording)`: thread t records this = exp on the tape
\* g, this being the handle H and inf the infos on entry.  The result is
\* the tape, the infos, and whether and with what output the process
\* exited.
RecordEntry(t, H, e, g, inf) ==
    LET nx == NextIndex(g)
        index == nx.index
        ids == PushIds(e)
        n == Len(ids)
        w == H.info
        level == g.derivative_trace_level
        \* exp.PushIds(entry.ids); entry.first.resize(entry.ids.size(), 0.0)
        entry0 == [EmptyEntry EXCEPT !.ids = ids, !.first = Zeros(n), !.by = t]
        entry1 == [entry0 EXCEPT !.w = w, !.first = FirstPartials(e, ids)]
        running(g1, inf1) == [gs |-> g1, info |-> inf1, pc |-> "running", out |-> out]
        exited(msg) ==
            [gs |-> PutEntry(nx.gs, index, entry0), info |-> inf,
             pc |-> "exited", out |-> Append(out, msg)]
    IN CASE level = FIRST_ORDER ->
                running(PutEntry(IdRange(nx.gs, ids, 1), index, entry1), inf)
         [] level = SECOND_ORDER ->
                exited("\"SECOND_ORDER\" not yet available!")
         [] level = THIRD_ORDER ->
                exited("\"THIRD_ORDER\" not yet available!")
         [] level = SECOND_ORDER_MIXED_PARTIALS ->
                LET nl == IsNonlinear(e)
                    i1 == [inf EXCEPT ![w].is_dependent = 1, ![w].is_nl = nl]
                    i2 == MakeNLInteractions(e, FALSE, i1)
                    i3 == MixedBookkeeping(i2, ids, 1, w, index)
                    i4 == [i3 EXCEPT ![w].dependence_level = @ + 1]
                    sm == SecondMixedSymmetric(e, ids, Zeros(n * n), 0, 0)
                IN running(PutEntry(nx.gs, index,
                                    [entry1 EXCEPT !.second_mixed = sm]), i4)
         [] level = THIRD_ORDER_MIXED_PARTIALS ->
                LET nl == IsNonlinear(e)
                    i1 == [inf EXCEPT ![w].is_dependent = 1, ![w].is_nl = nl]
                    i2 == MakeNLInteractions(e, FALSE, i1)
                    i3 == MixedBookkeeping(i2, ids, 1, w, index)
                IN running(PutEntry(nx.gs, index,
                                    [entry1 EXCEPT
                                        !.second_mixed = SecondMixedFull(e, ids),
                                        !.third_mixed = ThirdMixedFull(e, ids)]),
                           i3)
         [] level = GRADIENT ->
                running(PutEntry(nx.gs, index, entry1), inf)
         [] level = GRADIENT_AND_HESSIAN ->
                LET sm == SecondMixedLower(e, ids, Zeros(n * n), 0, 0)
                IN running(PutEntry(nx.gs, index,
                                    [entry1 EXCEPT !.second_mixed = sm]),
                           BumpDependenceLevel(inf, ids, 1))
         [] level = DYNAMIC_RECORD ->
                running(PutEntry(nx.gs, index,
                                 [entry0 EXCEPT !.w = w,
                                     !.exp = <<GetDynamicExpession(e)>>]),
                        BumpDependenceLevel(inf, ids, 1))
         [] OTHER ->
                exited("Unkown derivative trace level.")

\* this->SetValue(exp.GetValue()), the last statement of Assign_p, reached
\* when the process has not exited; r is what the recording left
StoreValue(H, e, r) ==
    IF r.pc = "exited" THEN r
    ELSE [r EXCEPT !.info = SetValue(H, GetValue(e), r.info)]

\* Assign_p without the recording block
Assign_p_NeverRecords(t, H, e, g, inf) ==
    StoreValue(H, e, [gs |-> g, info |-> inf, pc |-> "running", out |-> out])

\* Assign_p without the test of gs.recording
Assign_p_AlwaysRecords(t, H, e, g, inf) ==
    StoreValue(H, e, RecordEntry(t, H, e, g, inf))

\* Assign_p(gs, exp) on the handle H: record when recording, then
\* SetValue(exp.GetValue())
Assign_p(t, H, e, g, inf) ==
    IF g.recording
    THEN StoreValue(H, e, RecordEntry(t, H, e, g, inf))
    ELSE StoreValue(H, e, [gs |-> g, info |-> inf, pc |-> "running", out |-> out])

----------------------------------------------------------------------------
(* GradientStructure::Accumulate, the gradient reverse sweep *)

\* x_i.dvalue += e.w.dvalue * e.first[i], for the independents k.. of entry
RECURSIVE SweepEntry(_, _, _)
SweepEntry(inf, entry, k) ==
    IF k > Len(entry.ids) THEN inf
    ELSE SweepEntry(
            [inf EXCEPT ![entry.ids[k]].dvalue =
                Plus(@, Times(inf[entry.w].dvalue, entry.first[k]))],
            entry, k + 1)

\* the records idx, idx - 1, .., 1 of stack, newest first
RECURSIVE SweepFrom(_, _, _)
SweepFrom(inf, stack, idx) ==
    IF idx = 0 THEN inf
    ELSE SweepFrom(SweepEntry(inf, stack[idx], 1), stack, idx - 1)

\* seed the last record's w with 1 and sweep the tape
Accumulate(g, inf) ==
    IF g.stack_current = 0 THEN inf
    ELSE SweepFrom([inf EXCEPT ![g.gradient_stack[g.stack_current].w].dvalue = 1],
                   g.gradient_stack, g.stack_current)

----------------------------------------------------------------------------
(* Variable::ComputeUpToThirdOrderMixed *)

\* std::vector::resize(n): the first n elements kept, zeros appended
Resize(s, n) == [k \in 1..n |-> IF k <= Len(s) THEN s[k] ELSE 0]

\* what gs.Value(a, b) and gs.Value(a, b, c) return after the sweep: the
\* cell of the tape's Hessian store and third-order tensor for these ids
Value2(a, b) == [value_of |-> <<a, b>>]
Value3(a, b, c) == [value_of |-> <<a, b, c>>]
\* a cell of the caller's that holds no such value
NoValue == [value_of |-> <<>>]

\* the caller's hessian and third on entry, of dimension d
SquareOf(d) == [i \in 1..d |-> [j \in 1..d |-> NoValue]]
CubeOf(d) == [i \in 1..d |-> [j \in 1..d |-> [k \in 1..d |-> NoValue]]]

\* The body after gs.AccumulateThirdOrderMixed(), inf being the infos the
\* sweep left: gradient and hessian are resized and filled; third is
\* indexed as the caller passed it.  The result is the set of outcomes:
\* when third is smaller than the number of variables the writes beyond it
\* are undefined behaviour, which either ends the process or lands outside
\* the container and lets the function return.
ComputeUpToThirdOrderMixed(variables, gradient, hessian, third, inf) ==
    LET size == Len(variables)
        id(i) == InfoOf(variables[i])
        d == Len(third)
        g == [i \in 1..size |-> inf[id(i)].dvalue]
        H == [i \in 1..size |-> [j \in 1..size |-> Value2(id(i), id(j))]]
        T == [i \in 1..d |-> [j \in 1..d |-> [k \in 1..d |->
                IF i <= size /\ j <= size /\ k <= size
                THEN Value3(id(i), id(j), id(k))
                ELSE third[i][j][k]]]]
        returned == [gradient |-> g, hessian |-> H,
                     third |-> T, pc |-> "running", stray |-> FALSE]
    IN IF size <= d THEN {returned}
       ELSE {[returned EXCEPT !.stray = TRUE],
             [returned EXCEPT !.pc = "crashed", !.stray = TRUE]}

----------------------------------------------------------------------------
(* The operations of the program *)

Live == {h \in Handles : handles[h].live}
Dead == Handles \ Live
ValueOf(h) == info[InfoOf(h)].vvalue

\* a value the model lets a VariableInfo hold: non-finite, or within the
\* bound
InRange(v) == IsNaN(v) \/ v \in Finite
CanMint == next_id <= MaxInfos
\* a recording assignment needs a free slot of the tape
CanRecord == ~gs.recording \/ gs.stack_current < gs.size

\* what `last` keeps of an operation: its name, the handle it was called
\* on and its scalar argument (for an assignment, exp.GetValue() on entry)
Did(op, h, arg) == [op |-> op, h |-> h, arg |-> arg]
\* what `last` keeps of an assignment of the expression e: e as well
DidAssign(op, h, e) == [op |-> op, h |-> h, arg |-> GetValue(e), exp |-> e]

\* what `last` keeps of Variable(Variable&& other): other as well
DidMove(h, other) == [op |-> "Move", h |-> h, arg |-> 0, other |-> other]

\* Variable()
OpConstruct(h) ==
    /\ pc = "running" /\ h \in Dead /\ CanMint
    /\ handles' = [handles EXCEPT ![h] = FreshHandle(next_id)]
    /\ info' = [info EXCEPT ![next_id] = NewInfo(0)]
    /\ next_id' = next_id + 1
    /\ last' = Did("Construct", h, 0)
    /\ UNCHANGED <<gs, pc, out>>

\* Variable(val): info->vvalue = val
OpConstructValue(h, val) ==
    /\ pc = "running" /\ h \in Dead /\ CanMint
    /\ handles' = [handles EXCEPT ![h] = FreshHandle(next_id)]
    /\ info' = [info EXCEPT ![next_id] = NewInfo(val)]
    /\ next_id' = next_id + 1
    /\ last' = Did("ConstructValue", h, val)
    /\ UNCHANGED <<gs, pc, out>>

\* Variable(const Variable& other)
OpCopy(h, other) ==
    /\ pc = "running" /\ h \in Dead /\ other \in Live
    /\ handles' = [handles EXCEPT ![h] =
                      [handles[other] EXCEPT !.transformation = default_transformation]]
    /\ info' = Aquire(info, InfoOf(other))
    /\ last' = Did("Copy", h, 0)
    /\ UNCHANGED <<next_id, gs, pc, out>>

\* Swap without the statements that reset other
Swap_KeepsOther(hs, h, other, fresh) ==
    [hs EXCEPT ![h] = hs[other]]

\* this->Swap(other): this takes what other holds, other is reset to a
\* fresh info
Swap(hs, h, other, fresh) ==
    [hs EXCEPT ![h] = hs[other], ![other] = FreshHandle(fresh)]

\* Variable(Variable&& other)
OpMove(h, other) ==
    /\ pc = "running" /\ h \in Dead /\ other \in Live /\ CanMint
    /\ handles' = Swap(handles, h, other, next_id)
    /\ info' = [info EXCEPT ![next_id] = NewInfo(0)]
    /\ next_id' = next_id + 1
    /\ last' = DidMove(h, other)
    /\ UNCHANGED <<gs, pc, out>>

\* a.Swap(b) on two constructed Variables
OpSwap(h, other) ==
    /\ pc = "running" /\ h \in Live /\ other \in Live /\ CanMint
    /\ handles' = Swap(handles, h, other, next_id)
    /\ info' = [info EXCEPT ![next_id] = NewInfo(0)]
    /\ next_id' = next_id + 1
    /\ last' = Did("Swap", h, 0)
    /\ UNCHANGED <<gs, pc, out>>

\* ~Variable()
OpDestroy(h) ==
    /\ pc = "running" /\ h \in Live
    /\ handles' = [handles EXCEPT ![h] = DeadHandle]
    /\ info' = Release(info, InfoOf(h))
    /\ last' = Did("Destroy", h, 0)
    /\ UNCHANGED <<next_id, gs, pc, out>>

\* SetBounds(min_boundary, max_boundary)
SetBounds(H, mn, mx, inf) ==
    LET B == [H EXCEPT !.bounded = TRUE, !.min = mn, !.max = mx]
        v == inf[H.info].vvalue
    IN [handle |-> B,
        info |-> IF Less(v, mn) \/ Greater(v, mx) \/ Equal(v, 0)
                 THEN SetValue(B, Quot(Plus(mn, mx), 2), inf)
                 ELSE inf]

OpSetBounds(h, mn, mx) ==
    /\ pc = "running" /\ h \in Live
    /\ LET r == SetBounds(handles[h], mn, mx, info)
       IN /\ handles' = [handles EXCEPT ![h] = r.handle]
          /\ info' = r.info
    /\ last' = Did("SetBounds", h, 0)
    /\ UNCHANGED <<next_id, gs, pc, out>>

\* SetValue(value)
OpSetValue(h, value) ==
    /\ pc = "running" /\ h \in Live
    /\ InRange(SetValue(handles[h], value, info)[InfoOf(h)].vvalue)
    /\ info' = SetValue(handles[h], value, info)
    /\ last' = Did("SetValue", h, value)
    /\ UNCHANGED <<handles, next_id, gs, pc, out>>

\* operator=(const REAL_T& value)
OpAssignScalar(h, value) ==
    /\ pc = "running" /\ h \in Live
    /\ InRange(SetValue(handles[h], value, info)[InfoOf(h)].vvalue)
    /\ info' = SetValue(handles[h], value, info)
    /\ last' = Did("AssignScalar", h, value)
    /\ UNCHANGED <<handles, next_id, gs, pc, out>>

\* SetRecording(record)
OpSetRecording(record) ==
    /\ pc = "running"
    /\ gs' = [gs EXCEPT !.recording = record]
    /\ last' = Did("SetRecording", 0, 0)
    /\ UNCHANGED <<handles, info, next_id, pc, out>>

\* thread t runs this->Assign_p(gradient_structure_g, exp) on handle h
Assign(t, h, e, op) ==
    /\ pc = "running" /\ h \in Live /\ CanRecord
    /\ \E r \in {Assign_p(t, handles[h], e, gs, info)} :
          /\ InRange(r.info[InfoOf(h)].vvalue)
          /\ gs' = r.gs /\ info' = r.info /\ pc' = r.pc /\ out' = r.out
    /\ last' = DidAssign(op, h, e)
    /\ UNCHANGED <<handles, next_id>>

\* operator=(const Variable& other)
OpAssignVariable(t, h, other) ==
    /\ other \in Live
    /\ Assign(t, h, Var(other), "AssignVariable")

\* operator=(const ExpressionBase& exp)
OpAssignExpression(t, h, e) ==
    Assign(t, h, e, "AssignExpression")

\* operator+=, -=, *=, /= with a scalar, a Variable or an expression x:
\* *this = *this <op> x
OpCompound(t, h, op, x) ==
    /\ h \in Live
    /\ Assign(t, h, [op |-> op, l |-> Var(h), r |-> x], "Compound")

\* operator++(): *this = *this + 1.0
OpPreIncrement(t, h) ==
    /\ h \in Live
    /\ Assign(t, h, Add(Var(h), Scalar(1)), "PreIncrement")

\* operator--(): *this = *this - 1.0
OpPreDecrement(t, h) ==
    /\ h \in Live
    /\ Assign(t, h, Subtract(Var(h), Scalar(1)), "PreDecrement")

\* operator++(int) and operator--(int): temp is a copy of *this, in the
\* slot res, then *this is assigned e
Postfix(t, h, res, e, op) ==
    /\ pc = "running" /\ h \in Live /\ res \in Dead /\ CanRecord
    /\ handles' = [handles EXCEPT ![res] = handles[h]]
    /\ \E r \in {Assign_p(t, handles[h], e, gs, Aquire(info, InfoOf(h)))} :
          /\ InRange(r.info[InfoOf(h)].vvalue)
          /\ gs' = r.gs /\ info' = r.info /\ pc' = r.pc /\ out' = r.out
    /\ last' = DidAssign(op, h, e)
    /\ UNCHANGED next_id

\* operator++(int): *this = 1.0 + *this
OpPostIncrement(t, h, res) ==
    /\ h \in Live
    /\ Postfix(t, h, res, Add(Scalar(1), Var(h)), "PostIncrement")

\* operator--(int): *this = *this - 1.0
OpPostDecrement(t, h, res) ==
    /\ h \in Live
    /\ Postfix(t, h, res, Subtract(Var(h), Scalar(1)), "PostDecrement")

\* Variable(const ExpressionBase& exp): a fresh info, then Assign_p
OpConstructExpression(t, h, e) ==
    /\ pc = "running" /\ h \in Dead /\ CanMint /\ CanRecord
    /\ handles' = [handles EXCEPT ![h] = FreshHandle(next_id)]
    /\ next_id' = next_id + 1
    /\ \E r \in {Assign_p(t, FreshHandle(next_id), e, gs,
                             [info EXCEPT ![next_id] = NewInfo(0)])} :
          /\ InRange(r.info[next_id].vvalue)
          /\ gs' = r.gs /\ info' = r.info /\ pc' = r.pc /\ out' = r.out
    /\ last' = DidAssign("ConstructExpression", h, e)

\* gs.Accumulate() on fresh adjoints, over the partials the records store
OpAccumulate ==
    /\ pc = "running" /\ gs.stack_current > 0
    /\ gs.derivative_trace_level \in StoringLevels
    /\ \A i \in InfoIds : info[i].dvalue = 0
    /\ \A k \in 1..gs.stack_current :
          /\ info[gs.gradient_stack[k].w].state = "live"
          /\ \A j \in 1..Len(gs.gradient_stack[k].ids) :
                info[gs.gradient_stack[k].ids[j]].state = "live"
    /\ info' = Accumulate(gs, info)
    /\ last' = Did("Accumulate", 0, 0)
    /\ UNCHANGED <<handles, next_id, gs, pc, out>>

\* ComputeUpToThirdOrderMixed(gs, variables, gradient, hessian, third) on
\* fresh adjoints, the caller's three containers having dimension d
OpComputeUpToThirdOrderMixed(variables, d) ==
    /\ pc = "running" /\ gs.stack_current > 0
    /\ gs.derivative_trace_level = THIRD_ORDER_MIXED_PARTIALS
    /\ \A k \in DOMAIN variables : variables[k] \in Live
    /\ \A i \in InfoIds : info[i].dvalue = 0
    /\ info' = Accumulate(gs, info)
    /\ \E r \in ComputeUpToThirdOrderMixed(variables, Zeros(d), SquareOf(d),
                                           CubeOf(d), Accumulate(gs, info)) :
          /\ pc' = r.pc
          /\ last' = [op |-> "ComputeUpToThirdOrderMixed", h |-> 0, arg |-> d,
                      variables |-> variables, gradient |-> r.gradient,
                      hessian |-> r.hessian, third |-> r.third,
                      stray |-> r.stray]
    /\ UNCHANGED <<handles, next_id, gs, out>>

----------------------------------------------------------------------------
(* Inputs *)

\* (min, max) pairs given to SetBounds; the last has min > max
BoundPairs == {<<-1, 1>>, <<0, 0>>, <<1, -1>>}

Leaves == {Var(o) : o \in Live}

\* expressions over the live handles
UnaryExprs == {Sinh(x) : x \in Leaves} \cup {Cosh(x) : x \in Leaves}
BinaryExprs ==
    {[op |-> b, l |-> x, r |-> y] : b \in {"add", "mul"}, x \in Leaves, y \in Leaves}
NestedExprs ==
    {Sinh(x) : x \in UnaryExprs \cup BinaryExprs}
    \cup {Cosh(x) : x \in UnaryExprs}
Exprs == UnaryExprs \cup BinaryExprs \cup NestedExprs

\* right operands of the compound operators
Operands == {Scalar(1)} \cup Leaves \cup UnaryExprs

----------------------------------------------------------------------------
(* Specifications *)

InitWith(levels, recordings, size) ==
    /\ handles = [h \in Handles |-> DeadHandle]
    /\ info = [i \in InfoIds |-> UnbornInfo]
    /\ next_id = 1
    /\ \E level \in levels, recording \in recordings :
          gs = NewGradientStructure(level, recording, size)
    /\ pc = "running"
    /\ out = <<>>
    /\ last = Did("Init", 0, 0)

\* Assignments of every kind under every trace level, recording or not
Init == InitWith(TraceLevels, BOOLEAN, MaxTape)

Next ==
    \/ \E h \in Handles : OpConstructValue(h, 1)
    \/ \E h \in Handles : OpAssignScalar(h, 0)
    \/ \E h \in Handles, o \in Handles : OpAssignVariable(1, h, o)
    \/ \E h \in Handles, e \in UnaryExprs \cup {Multiply(Var(1), Var(2))} :
          /\ Handles \subseteq Live
          /\ OpAssignExpression(1, h, e)
    \/ \E h \in Handles, b \in Binary,
          x \in {Scalar(1), Var(1), Var(2), Cosh(Var(1))} :
          /\ Handles \subseteq Live
          /\ OpCompound(1, h, b, x)
    \/ \E h \in Handles : OpPreIncrement(1, h)
    \/ \E h \in Handles : OpPreDecrement(1, h)
    \/ \E h \in Handles, res \in Handles : OpPostIncrement(1, h, res)
    \/ \E h \in Handles, res \in Handles : OpPostDecrement(1, h, res)

Spec == Init /\ [][Next]_vars

\* Values and bounds: construction, SetBounds, SetValue and operator= of a
\* scalar, nothing recording
InitValue == InitWith({GRADIENT}, {FALSE}, MaxTape)

NextValue ==
    \/ \E h \in Handles, val \in {1, NaN} : OpConstructValue(h, val)
    \/ \E h \in Handles, b \in BoundPairs : OpSetBounds(h, b[1], b[2])
    \/ \E h \in Handles, val \in ValueInputs : OpSetValue(h, val)
    \/ \E h \in Handles : OpAssignScalar(h, 0)

SpecValue == InitValue /\ [][NextValue]_vars

\* Assignments to bounded and unbounded Variables under GRADIENT, recording
\* or not
InitAssign == InitWith({GRADIENT}, BOOLEAN, MaxTape)

NextAssign ==
    \/ \E h \in Handles, val \in {1, NaN} : OpConstructValue(h, val)
    \/ \E h \in Handles, b \in BoundPairs : OpSetBounds(h, b[1], b[2])
    \/ \E h \in Handles, o \in Handles : OpAssignVariable(1, h, o)
    \/ \E h \in Handles, e \in UnaryExprs \cup {Add(x, x) : x \in Leaves} :
          OpAssignExpression(1, h, e)

SpecAssign == InitAssign /\ [][NextAssign]_vars

\* The derivative queries of the expression nodes at every leaf value
InitEval == InitWith({GRADIENT}, {FALSE}, MaxTape)

NextEval ==
    \/ \E h \in Handles, val \in Scalars : OpConstructValue(h, val)
    \/ \E h \in Handles, val \in Scalars : OpAssignScalar(h, val)

SpecEval == InitEval /\ [][NextEval]_vars

\* The lifetime of handles and infos, with recorded v = u
InitLife == InitWith({GRADIENT}, {TRUE}, MaxTape)

NextLife ==
    \/ \E h \in Handles : OpConstruct(h)
    \/ \E h \in Handles, o \in Handles : OpCopy(h, o)
    \/ \E h \in Handles, o \in Handles : OpMove(h, o)
    \/ \E h \in Handles : \E o \in Handles \ {h} : OpSwap(h, o)
    \/ \E h \in Handles : OpDestroy(h)
    \/ \E h \in Handles : OpSetBounds(h, -1, 1)
    \/ \E h \in Handles, o \in Handles : OpAssignVariable(1, h, o)

SpecLife == InitLife /\ [][NextLife]_vars

\* Recorded assignments under FIRST_ORDER and GRADIENT on a tape of
\* MaxTape + 1 slots, and the gradient sweep
InitGrad == InitWith({FIRST_ORDER, GRADIENT}, {TRUE}, MaxTape + 1)

NextGrad ==
    \/ \E h \in Handles, val \in {0, 1} : OpConstructValue(h, val)
    \/ \E h \in Handles, o \in Handles : OpAssignVariable(1, h, o)
    \/ \E h \in Handles, e \in UnaryExprs \cup BinaryExprs :
          OpAssignExpression(1, h, e)
    \/ \E h \in Handles, o \in Handles :
          o \in Live /\ OpCompound(1, h, "add", Var(o))
    \/ \E h \in Handles, e \in UnaryExprs : OpConstructExpression(1, h, e)
    \/ OpAccumulate

SpecGrad == InitGrad /\ [][NextGrad]_vars

\* Two threads that record through operator= and construction from an
\* expression
InitThreads == InitWith({GRADIENT}, {TRUE}, MaxTape + 1)

NextThreads ==
    \/ \E h \in Handles, val \in {0, 1} : OpConstructValue(h, val)
    \/ \E t \in Threads, h \in Handles, o \in Handles : OpAssignVariable(t, h, o)
    \/ \E t \in Threads, h \in Handles, e \in UnaryExprs :
          OpAssignExpression(t, h, e)
    \/ \E t \in Threads, h \in Handles, e \in UnaryExprs :
          OpConstructExpression(t, h, e)

SpecThreads == InitThreads /\ [][NextThreads]_vars

\* Recorded assignments under each of the six levels that complete a
\* record, and the gradient sweep
InitRecord == InitWith(RecordingLevels, {TRUE}, MaxTape)

NextRecord ==
    \/ \E h \in Handles, val \in {0, 1} : OpConstructValue(h, val)
    \/ \E h \in Handles : OpAssignScalar(h, 0)
    \/ \E h \in Handles, o \in Handles : OpAssignVariable(1, h, o)
    \/ \E h \in Handles, e \in UnaryExprs \cup BinaryExprs :
          OpAssignExpression(1, h, e)
    \/ \E h \in Handles, o \in Handles :
          o \in Live /\ OpCompound(1, h, "mul", Var(o))
    \/ OpAccumulate

SpecRecord == InitRecord /\ [][NextRecord]_vars

\* Recorded assignments under the two mixed-partials levels on a tape of
\* MaxTape + 1 slots
InitMixed ==
    InitWith({SECOND_ORDER_MIXED_PARTIALS, THIRD_ORDER_MIXED_PARTIALS}, {TRUE},
             MaxTape + 1)

NextMixed ==
    \/ \E h \in Handles, val \in {0, 1} : OpConstructValue(h, val)
    \/ \E h \in Handles, o \in Handles : OpAssignVariable(1, h, o)
    \/ \E h \in Handles, e \in UnaryExprs \cup BinaryExprs :
          OpAssignExpression(1, h, e)

SpecMixed == InitMixed /\ [][NextMixed]_vars

\* the variables vectors given to the Compute functions, and the
\* dimensions of the caller's containers
VariableVectors ==
    {<<>>} \cup {<<h>> : h \in Handles} \cup {<<h, o>> : h \in Handles, o \in Handles}
CallerDimensions == 0..Cardinality(Handles)

\* Recorded assignments under THIRD_ORDER_MIXED_PARTIALS and the read-out
\* of the derivatives up to third order
InitThird == InitWith({THIRD_ORDER_MIXED_PARTIALS}, {TRUE}, MaxTape)

NextThird ==
    \/ \E h \in Handles, val \in {0, 1} : OpConstructValue(h, val)
    \/ \E h \in Handles, o \in Handles : OpAssignVariable(1, h, o)
    \/ \E h \in Handles, e \in UnaryExprs \cup BinaryExprs :
          OpAssignExpression(1, h, e)
    \/ \E variables \in VariableVectors, d \in CallerDimensions :
          OpComputeUpToThirdOrderMixed(variables, d)

SpecThird == InitThird /\ [][NextThird]_vars

\* Bounded Variables and the handles that share their info: construction,
\* copies, SetBounds, SetValue and assignments of numbers, nothing recording
InitBounds == InitWith({GRADIENT}, {FALSE}, MaxTape)

NextBounds ==
    \/ \E h \in Handles : OpConstructValue(h, 1)
    \/ \E h \in Handles, o \in Handles : OpCopy(h, o)
    \/ \E h \in Handles, b \in BoundPairs : OpSetBounds(h, b[1], b[2])
    \/ \E h \in Handles, val \in ValueInputs \ {NaN} : OpSetValue(h, val)
    \/ \E h \in Handles : OpAssignScalar(h, 0)
    \/ \E h \in Handles, o \in Handles : OpAssignVariable(1, h, o)
    \/ \E h \in Handles, e \in UnaryExprs : OpAssignExpression(1, h, e)

SpecBounds == InitBounds /\ [][NextBounds]_vars

----------------------------------------------------------------------------
(* Properties *)

\* operator= of a Variable or an expression
AssignOps == {"AssignVariable", "AssignExpression"}
\* those and the compound, prefix and postfix operators, which assign
\* *this an expression over *this
RecordingOps ==
    AssignOps \cup {"Compound", "PreIncrement", "PreDecrement",
                    "PostIncrement", "PostDecrement"}

\* the sum over the independents j.. of entry of first[j] times the
\* derivative D of that independent
RECURSIVE DotFirst(_, _, _)
DotFirst(D, entry, j) ==
    IF j > Len(entry.ids) THEN 0
    ELSE Plus(Times(entry.first[j], D[entry.ids[j]]), DotFirst(D, entry, j + 1))

\* the derivative of every info with respect to one leaf after the records
\* k.. of the tape, D being the derivatives before record k
RECURSIVE Tangent(_, _, _)
Tangent(D, stack, k) ==
    IF k > Len(stack) THEN D
    ELSE Tangent([D EXCEPT ![stack[k].w] = DotFirst(D, stack[k], 1)],
                 stack, k + 1)

\* d output / d x for the output of the last record
ExactPartial(x) ==
    Tangent([i \in InfoIds |-> IF i = x THEN 1 ELSE 0], gs.gradient_stack, 1)
        [gs.gradient_stack[gs.stack_current].w]

\* the infos that records read and no record assigns
InputLeaves ==
    {i \in InfoIds :
        /\ \E k \in 1..gs.stack_current :
              \E j \in 1..Len(gs.gradient_stack[k].ids) :
                 gs.gradient_stack[k].ids[j] = i
        /\ \A k \in 1..gs.stack_current : gs.gradient_stack[k].w # i}

\* C1: after the gradient sweep seeded on the output of the last record,
\* the dvalue of every input leaf is the exact partial derivative of that
\* output with respect to the leaf, also when a record's left-hand side is
\* among its own independents or a Variable was assigned twice.
C1_SweepGivesExactPartials ==
    last.op = "Accumulate" =>
        \A x \in InputLeaves : info[x].dvalue = ExactPartial(x)

\* C2: under each of the six recording levels with recording on, an
\* assignment of a Variable or of an expression and each compound, prefix
\* and postfix operator advances the tape by exactly one record; the
\* assignment of a scalar advances it by none.
C2_OneRecordPerAssignment ==
    [][/\ (/\ last'.op \in RecordingOps
           /\ gs.recording
           /\ gs.derivative_trace_level \in RecordingLevels)
          => /\ gs'.stack_current = gs.stack_current + 1
             /\ Len(gs'.gradient_stack) = Len(gs.gradient_stack) + 1
       /\ last'.op = "AssignScalar" => gs' = gs]_vars

C2_Witness ==
    /\ last.op = "Compound"
    /\ gs.recording
    /\ gs.derivative_trace_level = DYNAMIC_RECORD
    /\ gs.stack_current = 1
    /\ Len(gs.gradient_stack) = 1
    /\ gs.gradient_stack[1].w = InfoOf(last.h)

\* C3: with recording off, at every trace level, an assignment V = E
\* changes nothing but the value of V: the tape, its cursor and id range,
\* the handles and every other field of every info stay as they were, and
\* the process goes on.
C3_NotRecordingChangesOnlyValue ==
    [][(last'.op \in AssignOps /\ ~gs.recording)
          => /\ gs' = gs
             /\ handles' = handles
             /\ next_id' = next_id
             /\ pc' = pc
             /\ out' = out
             /\ \A i \in InfoIds :
                   /\ [info'[i] EXCEPT !.vvalue = 0] = [info[i] EXCEPT !.vvalue = 0]
                   /\ i # InfoOf(last'.h) => info'[i] = info[i]]_vars

C3_Witness ==
    /\ last.op = "AssignExpression"
    /\ ~gs.recording
    /\ gs.derivative_trace_level = SECOND_ORDER
    /\ gs.stack_current = 0
    /\ pc = "running"
    /\ ValueOf(last.h) = last.arg

\* C4 as stated: after a completed V = E the value of V equals E.value(),
\* whether V is bounded or not.
C4_ValueEqualsExpressionValue ==
    (last.op \in AssignOps /\ pc = "running") => ValueOf(last.h) = last.arg

\* C4: after a completed V = E the value of V equals E.value() when V is
\* unbounded or E.value() lies within V's bounds; for a bounded V it is the
\* midpoint of the bounds when E.value() is NaN, else min when E.value() is
\* below min, else max when E.value() is above max.
C4_ValueEqualsClampedExpressionValue ==
    (last.op \in AssignOps /\ pc = "running") =>
        LET H == handles[last.h]
            x == last.arg
            v == ValueOf(last.h)
        IN IF ~H.bounded THEN v = x
           ELSE IF x = NaN THEN v = H.min + ((H.max - H.min) \div 2)
           ELSE IF x < H.min THEN v = H.min
           ELSE IF x > H.max THEN v = H.max
           ELSE v = x

C4_Witness ==
    /\ last.op = "AssignExpression"
    /\ pc = "running"
    /\ handles[last.h].bounded
    /\ last.arg # NaN
    /\ last.arg > handles[last.h].max
    /\ handles[last.h].min <= handles[last.h].max
    /\ ValueOf(last.h) = handles[last.h].max

\* the live handles bound to the info i, and the tape records that hold i
\* among their independents
HandlesOn(i) == {h \in Live : InfoOf(h) = i}
RecordsOn(i) ==
    {k \in 1..Len(gs.gradient_stack) :
        \E j \in 1..Len(gs.gradient_stack[k].ids) :
            gs.gradient_stack[k].ids[j] = i}

\* C5: the ref_count of every info equals the number of live handles bound
\* to it plus the number of tape records holding it among their
\* independents.
C5_RefCountCountsHandlesAndRecords ==
    \A i \in InfoIds :
        info[i].state # "unborn" =>
            info[i].ref_count = Cardinality(HandlesOn(i)) + Cardinality(RecordsOn(i))

\* C6: over constructions, copies, moves, Swap and destructions the
\* ref_count of an info reaches zero, and the info is destroyed, once no
\* handle is bound to it any more, and not before.
C6_RefCountZeroWhenUnbound ==
    \A i \in InfoIds :
        info[i].state # "unborn" =>
            /\ (HandlesOn(i) = {}) <=> (info[i].ref_count = 0)
            /\ (info[i].ref_count = 0) <=> (info[i].state = "destroyed")

\* the tape thread t records on: gradient_structure_g, which is static and
\* not thread-local
TapeOf(t) == gs

\* C7: two threads record on two different tapes: every record of the tape
\* a thread records on was appended by that thread.
C7_ThreadsRecordOnSeparateTapes ==
    \A t \in Threads :
        \A k \in 1..Len(TapeOf(t).gradient_stack) :
            TapeOf(t).gradient_stack[k].by = t

\* C8: with recording on under SECOND_ORDER, THIRD_ORDER or a level outside
\* the enumeration, an assignment ends the process: a diagnostic naming the
\* problem is written, no value of any Variable is updated, and nothing
\* runs after the exit.
C8_FatalLevelEndsTheProcess ==
    [][/\ pc # "exited"
       /\ (/\ last'.op \in RecordingOps
           /\ gs.recording
           /\ gs.derivative_trace_level \in FatalLevels)
          => /\ pc' = "exited"
             /\ Len(out') = Len(out) + 1
             /\ out'[Len(out')] =
                   CASE gs.derivative_trace_level = SECOND_ORDER ->
                            "\"SECOND_ORDER\" not yet available!"
                     [] gs.derivative_trace_level = THIRD_ORDER ->
                            "\"THIRD_ORDER\" not yet available!"
                     [] OTHER -> "Unkown derivative trace level."
             /\ \A i \in InfoIds : info'[i].vvalue = info[i].vvalue]_vars

C8_Witness ==
    /\ pc = "exited"
    /\ gs.derivative_trace_level = UNKNOWN_LEVEL
    /\ last.op = "AssignVariable"
    /\ Len(out) = 1
    /\ ValueOf(last.h) # last.arg

\* C9: SetValue(x) on a bounded Variable with min <= max stores x when
\* min <= x <= max, min when x < min, max when x > max and
\* min + (max - min) / 2 when x is NaN; on an unbounded Variable it stores
\* x.
C9_SetValueClamps ==
    last.op = "SetValue" =>
        LET H == handles[last.h]
            x == last.arg
            v == ValueOf(last.h)
        IN /\ ~H.bounded => v = x
           /\ (H.bounded /\ H.min <= H.max) =>
                 /\ (x # NaN /\ H.min <= x /\ x <= H.max) => v = x
                 /\ (x # NaN /\ x < H.min) => v = H.min
                 /\ (x # NaN /\ x > H.max) => v = H.max
                 /\ x = NaN => v = H.min + ((H.max - H.min) \div 2)

C9_Witness ==
    /\ last.op = "SetValue"
    /\ handles[last.h].bounded
    /\ handles[last.h].min < handles[last.h].max
    /\ last.arg = NaN
    /\ ValueOf(last.h) = 0

\* the unary chain rule for f(g): f1, f2, f3 the derivatives of f at the
\* value of g, the rest the partials of g
ChainRule1(f1, ga) == Times(f1, ga)
ChainRule2(f1, f2, ga, gb, gab) ==
    Plus(Prod3(f2, ga, gb), Times(f1, gab))
ChainRule3(f1, f2, f3, ga, gb, gc, gab, gac, gbc, gabc) ==
    Plus(Prod4(f3, ga, gb, gc),
    Plus(Times(f2, Sum3(Times(gab, gc), Times(gac, gb), Times(gbc, ga))),
         Times(f1, gabc)))

\* the inner expressions g of Sinh(g) and Cosh(g)
InnerExprs ==
    Leaves \cup UnaryExprs \cup BinaryExprs
    \cup {Divide(x, y) : x \in Leaves, y \in Leaves}

\* C10: the first, second and third partials that Sinh(g) and Cosh(g)
\* evaluate equal the unary chain rule over the partials of g, with cosh,
\* sinh, cosh as the three derivatives of the outer function for Sinh and
\* sinh, cosh, sinh for Cosh, all taken at the value of g.
C10_SinhCoshFollowChainRule ==
    \A g \in InnerExprs, a \in InfoIds, b \in InfoIds, c \in InfoIds :
        LET v == GetValue(g)
            sh == StdSinh(v)
            ch == StdCosh(v)
            ga == EvaluateDerivative(g, a)
            gb == EvaluateDerivative(g, b)
            gc == EvaluateDerivative(g, c)
            gab == EvaluateDerivative2(g, a, b)
            gac == EvaluateDerivative2(g, a, c)
            gbc == EvaluateDerivative2(g, b, c)
            gabc == EvaluateDerivative3(g, a, b, c)
        IN /\ EvaluateDerivative(Sinh(g), a) = ChainRule1(ch, ga)
           /\ EvaluateDerivative2(Sinh(g), a, b) = ChainRule2(ch, sh, ga, gb, gab)
           /\ EvaluateDerivative3(Sinh(g), a, b, c) =
                 ChainRule3(ch, sh, ch, ga, gb, gc, gab, gac, gbc, gabc)
           /\ EvaluateDerivative(Cosh(g), a) = ChainRule1(sh, ga)
           /\ EvaluateDerivative2(Cosh(g), a, b) = ChainRule2(sh, ch, ga, gb, gab)
           /\ EvaluateDerivative3(Cosh(g), a, b, c) =
                 ChainRule3(sh, ch, sh, ga, gb, gc, gab, gac, gbc, gabc)

C10_Witness ==
    \E g \in InnerExprs, a \in InfoIds :
        /\ EvaluateDerivative2(g, a, a) \notin {0, NaN}
        /\ EvaluateDerivative3(g, a, a, a) \notin {0, NaN}
        /\ EvaluateDerivative2(Cosh(g), a, a) \notin {0, NaN}
        /\ EvaluateDerivative2(Cosh(g), a, a) # EvaluateDerivative2(Sinh(g), a, a)
        /\ EvaluateDerivative3(Sinh(g), a, a, a) \notin {0, NaN}

\* the expression nodes whose partials are compared under a permutation of
\* the ids: Variables, sinh and cosh of them, and sinh and cosh of those
\* and of sums and products of Variables, which have mixed partials
SymmetryExprs ==
    Leaves \cup UnaryExprs \cup NestedExprs
    \cup {Cosh(x) : x \in BinaryExprs}

\* C11: the second partial of every expression node is the same for (a, b)
\* and (b, a), and the third partial is the same for every permutation of
\* (a, b, c).
C11_PartialsAreSymmetric ==
    \A E \in SymmetryExprs, a \in InfoIds, b \in InfoIds, c \in InfoIds :
        /\ EvaluateDerivative2(E, a, b) = EvaluateDerivative2(E, b, a)
        /\ EvaluateDerivative3(E, a, b, c) = EvaluateDerivative3(E, a, c, b)
        /\ EvaluateDerivative3(E, a, b, c) = EvaluateDerivative3(E, b, a, c)
        /\ EvaluateDerivative3(E, a, b, c) = EvaluateDerivative3(E, b, c, a)
        /\ EvaluateDerivative3(E, a, b, c) = EvaluateDerivative3(E, c, a, b)
        /\ EvaluateDerivative3(E, a, b, c) = EvaluateDerivative3(E, c, b, a)

C11_Witness ==
    \E E \in SymmetryExprs, a \in InfoIds, b \in InfoIds :
        /\ a # b
        /\ E.op = "sinh"
        /\ EvaluateDerivative2(E, a, b) \notin {0, NaN}
        /\ EvaluateDerivative3(E, a, a, b) \notin {0, NaN}
        /\ EvaluateDerivative3(E, b, a, a) = EvaluateDerivative3(E, a, a, b)

\* the records the tape holds
Records == {gs.gradient_stack[k] : k \in 1..gs.stack_current}

\* C12: every completed record has as many first partials as independents;
\* under SECOND_ORDER_MIXED_PARTIALS, THIRD_ORDER_MIXED_PARTIALS and
\* GRADIENT_AND_HESSIAN its second_mixed has the square of that number of
\* cells, and under THIRD_ORDER_MIXED_PARTIALS its third_mixed the cube.
C12_BuffersSizedByIds ==
    \A entry \in Records :
        LET n == Len(entry.ids)
            level == gs.derivative_trace_level
        IN /\ Len(entry.first) = n
           /\ level \in {SECOND_ORDER_MIXED_PARTIALS, THIRD_ORDER_MIXED_PARTIALS,
                         GRADIENT_AND_HESSIAN}
                 => Len(entry.second_mixed) = n * n
           /\ level = THIRD_ORDER_MIXED_PARTIALS
                 => Len(entry.third_mixed) = n * n * n

C12_Witness ==
    /\ gs.derivative_trace_level = THIRD_ORDER_MIXED_PARTIALS
    /\ \E entry \in Records :
          /\ Len(entry.ids) = 2
          /\ Len(entry.first) = 2
          /\ Len(entry.second_mixed) = 4
          /\ Len(entry.third_mixed) = 8

\* v = u is the step taken, u another Variable than v, on an empty tape
IdentityAssigned ==
    /\ last'.op = "AssignVariable"
    /\ gs.recording
    /\ gs.stack_current = 0
    /\ InfoOf(last'.exp.h) # InfoOf(last'.h)

\* the record of v = u: w is v's info, u's info the one independent, 1
\* the one first partial
IdentityRecorded ==
    /\ gs'.stack_current = 1
    /\ gs'.gradient_stack[1].w = InfoOf(last'.h)
    /\ gs'.gradient_stack[1].ids = <<InfoOf(last'.exp.h)>>
    /\ gs'.gradient_stack[1].first = <<1>>

\* the sweep is the step taken, right after v = u, the one record
IdentitySwept ==
    /\ last.op = "AssignVariable"
    /\ last'.op = "Accumulate"
    /\ gs.stack_current = 1
    /\ InfoOf(last.exp.h) # InfoOf(last.h)

C14_ScalarAssignmentGivesZeroGradient ==
    [][(last.op = "AssignScalar" /\ last'.op = "Accumulate")
          => \A x \in InputLeaves : info'[x].dvalue = 0]_vars

Range(s) == {s[k] : k \in DOMAIN s}

\* the infos the tape refers to, as the w or an independent of a record
TapeInfos ==
    UNION {{gs.gradient_stack[k].w} \cup Range(gs.gradient_stack[k].ids) :
              k \in 1..Len(gs.gradient_stack)}

\* C15: the move construction of B from A leaves B bound to the info A
\* held, with A's bounds, bounded flag and transformation; leaves A bound
\* to a newly allocated info that no other handle and no tape record
\* refers to; and leaves the ref_count of the transferred info as it was.
C15_MoveTransfersTheInfo ==
    [][last'.op = "Move" =>
          LET B == last'.h
              A == last'.other
              moved == handles[A].info
              fresh == handles'[A].info
          IN /\ handles'[B] = handles[A]
             /\ handles'[B].info = moved
             /\ handles'[B].bounded = handles[A].bounded
             /\ handles'[B].min = handles[A].min
             /\ handles'[B].max = handles[A].max
             /\ handles'[B].transformation = handles[A].transformation
             /\ handles'[A].live
             /\ info[fresh].state = "unborn"
             /\ info'[fresh].state = "live"
             /\ \A h \in Handles \ {A} : handles'[h].info # fresh
             /\ fresh \notin TapeInfos
             /\ info'[moved].ref_count = info[moved].ref_count]_vars

C15_Witness ==
    /\ last.op = "Move"
    /\ handles[last.h].bounded
    /\ handles[last.h].min = -1
    /\ ~handles[last.other].bounded
    /\ handles[last.other].info = next_id - 1
    /\ handles[last.h].info \in TapeInfos
    /\ info[handles[last.h].info].ref_count = 1

\* the record the tape's cursor is on
NewestRecord(g) == g.gradient_stack[g.stack_current]

\* a recording assignment under a level that stores partials is the step
\* taken
StoringAssigned ==
    /\ last'.op \in RecordingOps
    /\ gs.recording
    /\ gs.derivative_trace_level \in StoringLevels

\* C16: under the five levels that store partials, the record of V = E has
\* first[i] equal to the partial of E with respect to the i-th id of ids,
\* evaluated on the values the leaves had before the assignment, also when
\* V is a leaf of E.
C16_FirstPartialsFromValuesBefore ==
    [][StoringAssigned =>
          LET entry == NewestRecord(gs')
          IN /\ entry.w = InfoOf(last'.h)
             /\ entry.ids = PushIds(last'.exp)
             /\ Len(entry.first) = Len(entry.ids)
             /\ \A i \in 1..Len(entry.ids) :
                   entry.first[i] = EvaluateDerivative(last'.exp, entry.ids[i])]_vars

\* v = cosh(v) at v = 0: the record holds sinh(0), and v is 1 afterwards
C16_Witness ==
    /\ last.op = "AssignExpression"
    /\ gs.derivative_trace_level = GRADIENT_AND_HESSIAN
    /\ gs.stack_current = 1
    /\ last.exp = Cosh(Var(last.h))
    /\ NewestRecord(gs).ids = <<InfoOf(last.h)>>
    /\ NewestRecord(gs).first = <<0>>
    /\ ValueOf(last.h) = 1
    /\ EvaluateDerivative(last.exp, InfoOf(last.h)) = 2

\* C17: under FIRST_ORDER every recorded assignment to V increments
\* V.info.is_dependent, so the info that is the w of a record has a
\* non-zero is_dependent.
C17_FirstOrderMarksDependent ==
    gs.derivative_trace_level = FIRST_ORDER =>
        \A entry \in Records : info[entry.w].is_dependent # 0

\* C18: after recorded assignments under FIRST_ORDER or GRADIENT the id of
\* every independent of every record lies between the tape's min_id and
\* max_id.
C18_IdsWithinMinMax ==
    gs.derivative_trace_level \in {FIRST_ORDER, GRADIENT} =>
        \A entry \in Records :
            \A i \in 1..Len(entry.ids) :
                /\ gs.min_id <= entry.ids[i]
                /\ entry.ids[i] <= gs.max_id

\* a recording assignment under one of the two mixed-partials levels is the
\* step taken
MixedAssigned ==
    /\ last'.op \in RecordingOps
    /\ gs.recording
    /\ gs.derivative_trace_level \in
          {SECOND_ORDER_MIXED_PARTIALS, THIRD_ORDER_MIXED_PARTIALS}

\* C19: under SECOND_ORDER_MIXED_PARTIALS and THIRD_ORDER_MIXED_PARTIALS the
\* record of V = E over the independents x_0 .. x_(n-1) has
\* second_mixed[i*n + j] equal to the second partial of E by (x_i, x_j) for
\* every (i, j), and under THIRD_ORDER_MIXED_PARTIALS
\* third_mixed[i*n*n + j*n + k] equal to the third partial by
\* (x_i, x_j, x_k) for every (i, j, k).
C19_MixedPartialsRowMajor ==
    [][MixedAssigned =>
          LET entry == NewestRecord(gs')
              n == Len(entry.ids)
              E == last'.exp
              x(i) == entry.ids[i + 1]
          IN /\ \A i \in 0..(n - 1), j \in 0..(n - 1) :
                   entry.second_mixed[i * n + j + 1] =
                       EvaluateDerivative2(E, x(i), x(j))
             /\ gs.derivative_trace_level = THIRD_ORDER_MIXED_PARTIALS =>
                   \A i \in 0..(n - 1), j \in 0..(n - 1), k \in 0..(n - 1) :
                       entry.third_mixed[i * n * n + j * n + k + 1] =
                           EvaluateDerivative3(E, x(i), x(j), x(k))]_vars

C19_Witness ==
    /\ last.op \in RecordingOps
    /\ gs.derivative_trace_level = SECOND_ORDER_MIXED_PARTIALS
    /\ gs.stack_current = 1
    /\ last.exp.op = "mul"
    /\ Len(NewestRecord(gs).ids) = 2
    /\ NewestRecord(gs).second_mixed = <<0, 1, 1, 0>>

\* C20: under GRADIENT_AND_HESSIAN the record of V = E has
\* second_mixed[i*n + j] equal to the second partial of E by (x_i, x_j) in
\* every cell with j <= i, and every cell with j > i is as the resize left
\* it, zero.
C20_HessianLowerTriangleOnly ==
    [][(/\ last'.op \in RecordingOps
        /\ gs.recording
        /\ gs.derivative_trace_level = GRADIENT_AND_HESSIAN)
          => LET entry == NewestRecord(gs')
                 n == Len(entry.ids)
                 E == last'.exp
                 x(i) == entry.ids[i + 1]
             IN \A i \in 0..(n - 1), j \in 0..(n - 1) :
                   /\ j <= i => entry.second_mixed[i * n + j + 1] =
                                    EvaluateDerivative2(E, x(i), x(j))
                   /\ j > i => entry.second_mixed[i * n + j + 1] = 0]_vars

\* C21: under every recording level the dependence_level of each info is
\* the number of tape records that hold it among their independents; being
\* the w of a record does not change it.
C21_DependenceLevelCountsRecords ==
    \A i \in InfoIds :
        info[i].state # "unborn" =>
            info[i].dependence_level = Cardinality(RecordsOn(i))

\* the record before this step was recorded under a mixed-partials level
\* with the info i among its independents while i carried a nonlinear
\* marker
RecordedNonlinear(i) ==
    /\ last.op \in RecordingOps
    /\ gs.recording
    /\ gs.derivative_trace_level \in
          {SECOND_ORDER_MIXED_PARTIALS, THIRD_ORDER_MIXED_PARTIALS}
    /\ gs.stack_current > 0
    /\ i \in Range(NewestRecord(gs).ids)
    /\ (info[i].is_nl \/ info[i].has_nl_interaction)

\* C22: under the two mixed-partials levels, once an info has been recorded
\* as an independent while carrying a nonlinear marker, its push_start is
\* the tape index of that first record and no later record changes it.
C22_PushStartKeepsFirstIndex ==
    [][\A i \in InfoIds :
          RecordedNonlinear(i) =>
              /\ info[i].push_start <= gs.stack_current - 1
              /\ gs'.stack_current = gs.stack_current + 1
                    => info'[i].push_start = info[i].push_start]_vars

\* C23: ComputeUpToThirdOrderMixed returns, whatever the sizes of the
\* caller's containers on entry, with every write in bounds, g of length n,
\* H of shape n x n and T of shape n x n x n for the n variables, g[i] the
\* dvalue of the i-th, H[i][j] and T[i][j][k] the tape's second- and
\* third-order values for their ids.
C23_ThirdOrderReadOutSizesItsContainers ==
    last.op = "ComputeUpToThirdOrderMixed" =>
        LET n == Len(last.variables)
            id(i) == InfoOf(last.variables[i])
        IN /\ pc = "running"
           /\ ~last.stray
           /\ Len(last.gradient) = n
           /\ Len(last.hessian) = n
           /\ \A i \in 1..n : Len(last.hessian[i]) = n
           /\ Len(last.third) = n
           /\ \A i \in 1..n :
                 /\ Len(last.third[i]) = n
                 /\ \A j \in 1..n : Len(last.third[i][j]) = n
           /\ \A i \in 1..n :
                 /\ last.gradient[i] = info[id(i)].dvalue
                 /\ \A j \in 1..n :
                       /\ last.hessian[i][j] = Value2(id(i), id(j))
                       /\ \A k \in 1..n :
                             last.third[i][j][k] = Value3(id(i), id(j), id(k))

\* the infos the records on the tape refer to
RecordedInfos ==
    UNION {{gs.gradient_stack[k].w} \cup Range(gs.gradient_stack[k].ids) :
              k \in 1..gs.stack_current}

\* C24: through constructions, recorded assignments and destructions, every
\* info that a record on the tape refers to, as its w or among its
\* independents, is live and not destroyed.
C24_RecordedInfosStayLive ==
    \A i \in RecordedInfos : info[i].state = "live"

\* C25: the Variable that postfix v++ or v-- returns reports the value v
\* had before the update, while v reports that value plus or minus one.
C25_PostfixReturnsTheOldValue ==
    [][(last'.op \in {"PostIncrement", "PostDecrement"} /\ pc' = "running")
          => LET v == last'.h
                 before == info[InfoOf(v)].vvalue
                 step == IF last'.op = "PostIncrement" THEN 1 ELSE 0 - 1
             IN /\ info'[handles'[v].info].vvalue = Plus(before, step)
                /\ \A temp \in Handles :
                      (~handles[temp].live /\ handles'[temp].live)
                         => info'[handles'[temp].info].vvalue = before]_vars

\* C26: the value of every handle that SetBounds(min, max) with min <= max
\* was called on lies in [min, max] after whatever SetValue and assignments
\* follow, through this handle or through others that share its info.
C26_BoundedHandleStaysWithinBounds ==
    \A h \in Live :
        (handles[h].bounded /\ handles[h].min <= handles[h].max)
           => /\ ValueOf(h) # NaN
              /\ handles[h].min <= ValueOf(h)
              /\ ValueOf(h) <= handles[h].max

====
